---------------------------- MODULE Spec2Model ----------------------------
(***************************************************************************)
(* Model of src/app.py: the synthetic donor generator and the derivations  *)
(* computed from the donor DataFrame (donation stream, segmentation,       *)
(* churn selection, nudges, campaign totals).                              *)
(*                                                                         *)
(* A DataFrame is a record [columns, index, rows]: the ordered column      *)
(* names, the row labels and the rows, each row a record over the columns. *)
(* A function of app.py is an operator that yields the SET of outcomes the *)
(* random draws allow; an outcome holds what the call returns (a frame or  *)
(* a raised exception) and the caller's donors_df as the call leaves it.   *)
(* Random draws range over the small sets the actions pass in.             *)
(*                                                                         *)
(* Dates are day numbers, timestamps are hours (24 * day + hour).          *)
(* Line 29 of app.py lacks the "[" of its weight list (p=0.5, 0.3, 0.2]);  *)
(* the model reads it as p=[0.5, 0.3, 0.2].                                *)
(* The Champions label carries an emoji prefix in the source string; the   *)
(* model writes the label without it.                                      *)
(***************************************************************************)
EXTENDS Integers, Sequences, FiniteSets, TLC

VARIABLES today, pc, donors, generated, genDay, live_donations, call, result

vars == <<today, pc, donors, generated, genDay, live_donations, call, result>>

(***************************************************************************)
(* Bounds of the model.                                                    *)
(***************************************************************************)
MaxDonors == 2
MaxEvents == 2
MaxTopN == 2
MaxNudges == 2
MaxTicks == 1

(***************************************************************************)
(* Program constants.                                                      *)
(***************************************************************************)
BaseId == 1001
JoinDaysLow == 30
JoinDaysHigh == 730
DonationsLow == 1
DonationsHigh == 50
ChampionAmount == 150
ChampionDonations == 10
EmergingAmount == 50
EmergingDays == 90
ChurnDays == 180
AmountFloor == 5
HoursPerDay == 24
ScoreLow == 700
ScoreHigh == 950
AskNum == 5
AskDen == 4

Campaigns == <<"Summer Appeal", "Holiday Drive", "Emergency Fund">>
Channels == <<"Email", "Targeted Ad", "SMS">>
DonorColumns == <<"donor_id", "name", "join_date", "total_donations", "total_amount">>
ChurnColumns == <<"name", "join_date", "total_donations", "churn_risk_score", "suggested_action">>
NudgeColumns == <<"name", "avg_donation", "suggested_ask", "suggested_channel">>

NaN == "NaN"

(***************************************************************************)
(* Sequences.                                                              *)
(***************************************************************************)
Range(s) == {s[i] : i \in DOMAIN s}

RECURSIVE SumSeq(_)
SumSeq(s) == IF s = <<>> THEN 0 ELSE Head(s) + SumSeq(Tail(s))

RECURSIVE FlattenSeq(_)
FlattenSeq(ss) == IF ss = <<>> THEN <<>> ELSE Head(ss) \o FlattenSeq(Tail(ss))

Injections(k, n) == {p \in [1..k -> 1..n] : \A i, j \in 1..k : i # j => p[i] # p[j]}

(***************************************************************************)
(* Outcomes of a call.                                                     *)
(***************************************************************************)
NoFrame == [columns |-> <<>>, index |-> <<>>, rows |-> <<>>]
Ok(v) == [kind |-> "ok", value |-> v, error |-> "none"]
Raise(e) == [kind |-> "raise", value |-> NoFrame, error |-> e]
Outcome(ret, df) == [ret |-> ret, df |-> df]

(***************************************************************************)
(* pandas / numpy primitives the functions use.                            *)
(***************************************************************************)
RangeIndex(n) == [i \in 1..n |-> i - 1]

\* pd.DataFrame(data): data maps each column to an array of length n.
DataFrame(columns, n, data) ==
    [columns |-> columns,
     index |-> RangeIndex(n),
     rows |-> [i \in 1..n |-> [c \in Range(columns) |-> data[c][i]]]]

\* a / b on float columns: a zero divisor yields inf or nan, never an error.
truediv(a, b) ==
    IF b # 0 THEN [kind |-> "finite", num |-> a, den |-> b]
    ELSE IF a = 0 THEN [kind |-> "nan", num |-> 0, den |-> 0]
    ELSE [kind |-> "inf", num |-> a, den |-> 0]

\* Mutant of randint: the lower bound left at numpy's default of 0.
randint_from_zero(low, high, draws) == {x \in draws : 0 <= x /\ x < high}

\* np.random.randint(low, high): the draws that lie in [low, high).
randint(low, high, draws) == {x \in draws : low <= x /\ x < high}

\* np.random.lognormal(...).astype(int): a positive float, in tenths, truncated.
lognormal_int(draws) == {x \div 10 : x \in {y \in draws : y > 0}}

\* df[col] = values, values an array (or a Series on the frame's own index).
\* A frame with no rows takes its index from a non-empty value and fills its
\* other columns with NaN (DataFrame._ensure_valid_index); otherwise the
\* lengths must match.
setitem(df, col, values) ==
    LET cols == IF col \in Range(df.columns) THEN df.columns ELSE Append(df.columns, col)
    IN  IF Len(df.rows) = 0 /\ Len(values) > 0
        THEN Ok([columns |-> cols,
                 index |-> RangeIndex(Len(values)),
                 rows |-> [i \in 1..Len(values) |->
                             [c \in Range(cols) |-> IF c = col THEN values[i] ELSE NaN]]])
        ELSE IF Len(values) # Len(df.rows)
        THEN Raise("ValueError")
        ELSE Ok([columns |-> cols,
                 index |-> df.index,
                 rows |-> [i \in 1..Len(df.rows) |->
                             [c \in Range(cols) |->
                                IF c = col THEN values[i] ELSE df.rows[i][c]]]])

\* df[col] = scalar: the scalar on every row.
setitem_scalar(df, col, v) ==
    LET cols == IF col \in Range(df.columns) THEN df.columns ELSE Append(df.columns, col)
    IN  [columns |-> cols,
         index |-> df.index,
         rows |-> [i \in 1..Len(df.rows) |->
                     [c \in Range(cols) |-> IF c = col THEN v ELSE df.rows[i][c]]]]

\* df[[c1, c2, ...]]: the named columns, in that order.
project(df, columns) ==
    [columns |-> columns,
     index |-> df.index,
     rows |-> [i \in 1..Len(df.rows) |-> [c \in Range(columns) |-> df.rows[i][c]]]]

\* The rows at positions pos (a sequence of positions), labels kept.
take(df, pos) ==
    [columns |-> df.columns,
     index |-> [i \in 1..Len(pos) |-> df.index[pos[i]]],
     rows |-> [i \in 1..Len(pos) |-> df.rows[pos[i]]]]

(***************************************************************************)
(* generate_synthetic_donors(n_donors)                                     *)
(***************************************************************************)
\* Mutant of donor_id: every donor gets the base id.
donor_id_repeated(i) == BaseId

donor_id(i) == BaseId + (i - 1)

donor_name(i) == "Donor_" \o ToString(i - 1)

generate_synthetic_donors(n_donors, now, DayDraws, CountDraws, AmountDraws) ==
    IF n_donors < 0
    THEN {Raise("ValueError")}      \* np.random.randint(1, 50, n) with n < 0
    ELSE LET n == n_donors
             days == randint(JoinDaysLow, JoinDaysHigh, DayDraws)
             counts == randint(DonationsLow, DonationsHigh, CountDraws)
             amounts == lognormal_int(AmountDraws)
         IN  { LET data == [donor_id |-> [i \in 1..n |-> donor_id(i)],
                            name |-> [i \in 1..n |-> donor_name(i)],
                            join_date |-> [i \in 1..n |-> now - d[i]],
                            total_donations |-> k,
                            total_amount |-> a]
                   df == DataFrame(DonorColumns, n, data)
               IN  setitem(df, "avg_donation",
                           [i \in 1..n |-> truediv(df.rows[i].total_amount,
                                                   df.rows[i].total_donations)])
               : d \in [1..n -> days], k \in [1..n -> counts], a \in [1..n -> amounts] }

(***************************************************************************)
(* get_donor_segments(donors_df)                                           *)
(***************************************************************************)
Labels == {"Champions", "Emerging Supporters", "One-Time Givers", "At-Risk Donors"}

\* The condition list of np.select, one boolean per row and condition.
conditions(row, now) ==
    << row.total_amount > ChampionAmount /\ row.total_donations > ChampionDonations,
       row.total_amount > EmergingAmount /\ row.join_date > now - EmergingDays,
       row.total_donations = 1 >>

choices == <<"Champions", "Emerging Supporters", "One-Time Givers">>

\* Mutant of np_select: the default left at numpy's own, 0.
np_select_nodefault(condlist, choicelist, default) ==
    LET hits == {k \in DOMAIN condlist : condlist[k]}
    IN  IF hits = {} THEN "0"
        ELSE choicelist[CHOOSE k \in hits : \A j \in hits : k <= j]

\* Mutant of np_select: the last condition that holds wins.
np_select_last(condlist, choicelist, default) ==
    LET hits == {k \in DOMAIN condlist : condlist[k]}
    IN  IF hits = {} THEN default
        ELSE choicelist[CHOOSE k \in hits : \A j \in hits : k >= j]

\* np.select(condlist, choicelist, default) on one row: the choice of the
\* first condition that holds, the default when none does.
np_select(condlist, choicelist, default) ==
    LET hits == {k \in DOMAIN condlist : condlist[k]}
    IN  IF hits = {} THEN default
        ELSE choicelist[CHOOSE k \in hits : \A j \in hits : k <= j]

\* Series.value_counts().reset_index(), columns renamed to segment, count:
\* one row per value that occurs, most frequent first, ties in any order.
value_counts(values) ==
    LET present == Range(values)
        k == Cardinality(present)
        cnt(v) == Cardinality({i \in DOMAIN values : values[i] = v})
        orders == {s \in [1..k -> present] :
                     /\ \A i, j \in 1..k : i # j => s[i] # s[j]
                     /\ \A i, j \in 1..k : i < j => cnt(s[i]) >= cnt(s[j])}
    IN  { [columns |-> <<"segment", "count">>,
           index |-> RangeIndex(k),
           rows |-> [i \in 1..k |-> [segment |-> s[i], count |-> cnt(s[i])]]]
          : s \in orders }

\* Mutant of segment_column: the labels are written over the name column.
segment_column_name == "name"

\* The column line 43 writes.
segment_column == "segment"

get_donor_segments(donors_df, now) ==
    LET segment == [i \in 1..Len(donors_df.rows) |->
                      np_select(conditions(donors_df.rows[i], now), choices, "At-Risk Donors")]
        assigned == setitem(donors_df, segment_column, segment)
    IN  IF assigned.kind # "ok"
        THEN {Outcome(assigned, donors_df)}
        ELSE {Outcome(Ok(segment_counts), assigned.value) :
                segment_counts \in value_counts(segment)}

(***************************************************************************)
(* get_live_donations_data(donors_df, num_donations)                       *)
(***************************************************************************)
\* pd.date_range(date, periods = n, freq = 'h'): n hourly timestamps from
\* the start of the date.
date_range(date, periods) == [i \in 1..periods |-> date * HoursPerDay + (i - 1)]

\* left.merge(right, on = key, how = 'left'): every left row, in order, once
\* per right row with the same key, or once with NaN when there is none.
merge_left(left, right, key, right_columns) ==
    LET extra == SelectSeq(right_columns, LAMBDA c : c # key)
        cols == left.columns \o extra
        joined(l) ==
            LET hits == SelectSeq(right.rows, LAMBDA r : r[key] = l[key])
            IN  IF hits = <<>>
                THEN << [c \in Range(cols) |-> IF c \in Range(left.columns) THEN l[c] ELSE NaN] >>
                ELSE [h \in 1..Len(hits) |->
                        [c \in Range(cols) |->
                           IF c \in Range(left.columns) THEN l[c] ELSE hits[h][c]]]
        rows == FlattenSeq([i \in 1..Len(left.rows) |-> joined(left.rows[i])])
    IN  [columns |-> cols, index |-> RangeIndex(Len(rows)), rows |-> rows]

\* np.random.choice(a, size): size draws from a, with replacement.
random_choice(a, size) ==
    IF size < 0 \/ (a = {} /\ size > 0) THEN {} ELSE [1..size -> a]

\* Mutant of drawn_donor_ids: ids drawn from a range one longer than the frame.
drawn_donor_ids_range(donors_df, size) ==
    random_choice(BaseId..(BaseId + Len(donors_df.rows)), size)

\* np.random.choice(donors_df['donor_id'], num_donations)
drawn_donor_ids(donors_df, size) ==
    random_choice({donors_df.rows[i].donor_id : i \in 1..Len(donors_df.rows)}, size)

get_live_donations_data(donors_df, num_donations, now, AmountDraws, CampaignDraws) ==
    LET n == num_donations
        ids == drawn_donor_ids(donors_df, n)
    IN  IF ids = {}
        THEN {Outcome(Raise("ValueError"), donors_df)}
        ELSE { LET data == [timestamp |-> date_range(now, n),
                            amount |-> [i \in 1..n |-> amount[i] + AmountFloor],
                            campaign |-> campaign,
                            donor_id |-> donor_ids]
                   events == DataFrame(<<"timestamp", "amount", "campaign", "donor_id">>, n, data)
               IN  Outcome(Ok(merge_left(events, donors_df, "donor_id", <<"donor_id", "name">>)),
                           donors_df)
               : donor_ids \in ids,
                 amount \in [1..n -> lognormal_int(AmountDraws)],
                 campaign \in random_choice(Range(Campaigns) \cap CampaignDraws, n) }

(***************************************************************************)
(* get_churn_risk_donors(donors_df, num_at_risk)                           *)
(***************************************************************************)
\* df[mask]: the positions of the rows the boolean mask selects, in order.
mask_positions(mask) ==
    SelectSeq([i \in 1..Len(mask) |-> i], LAMBDA i : mask[i])

\* The orders sort_values(col) may leave a selection of rows in: ascending
\* in col, rows with equal keys in any order (the default sort is not stable).
sort_values(df, pos, col) ==
    {[i \in 1..Len(pos) |-> pos[p[i]]] : p \in
        {q \in Injections(Len(pos), Len(pos)) :
            \A i, j \in 1..Len(pos) :
                i < j => df.rows[pos[q[i]]][col] <= df.rows[pos[q[j]]][col]}}

\* head(n): the first n rows; all but the last -n rows when n is negative.
head(pos, n) ==
    LET k == IF n >= 0 THEN (IF n < Len(pos) THEN n ELSE Len(pos))
             ELSE (IF Len(pos) + n > 0 THEN Len(pos) + n ELSE 0)
    IN  SubSeq(pos, 1, k)

\* round(2) of a value given in thousandths, to hundredths, half to even.
round2(x) ==
    LET q == x \div 10
        r == x % 10
    IN  IF r > 5 \/ (r = 5 /\ q % 2 = 1) THEN q + 1 ELSE q

\* np.random.uniform(0.7, 0.95, size).round(2), in hundredths.
uniform_scores(size, draws) ==
    IF size < 0 THEN {}
    ELSE [1..size -> {round2(x) : x \in {y \in draws : ScoreLow <= y /\ y < ScoreHigh}}]

get_churn_risk_donors(donors_df, num_at_risk, now, ScoreDraws) ==
    LET old == mask_positions([i \in 1..Len(donors_df.rows) |->
                                 donors_df.rows[i].join_date < now - ChurnDays])
        scores == uniform_scores(num_at_risk, ScoreDraws)
    IN  IF scores = {}
        THEN {Outcome(Raise("ValueError"), donors_df)}
        ELSE { LET at_risk_candidates == take(donors_df, head(sorted, num_at_risk))
                   scored == setitem(at_risk_candidates, "churn_risk_score", score)
               IN  IF scored.kind # "ok"
                   THEN Outcome(scored, donors_df)
                   ELSE Outcome(Ok(project(setitem_scalar(scored.value, "suggested_action",
                                                          "Personal Call"),
                                           ChurnColumns)),
                                donors_df)
               : sorted \in sort_values(donors_df, old, "total_donations"),
                 score \in scores }

(***************************************************************************)
(* get_donation_nudges(donors_df, num_nudges)                              *)
(***************************************************************************)
\* Mutant of sample: rows drawn with replacement.
sample_replace(df, n) ==
    IF n < 0 \/ (Len(df.rows) = 0 /\ n > 0) THEN {} ELSE [1..n -> 1..Len(df.rows)]

\* DataFrame.sample(n): n rows drawn without replacement, in drawn order.
sample(df, n) ==
    IF n < 0 \/ n > Len(df.rows) THEN {} ELSE Injections(n, Len(df.rows))

\* (avg_donation * 1.25).round(0): the nearest integer, half to even.
suggested_ask(avg) ==
    IF avg.kind # "finite" THEN avg
    ELSE LET num == AskNum * avg.num
             den == AskDen * avg.den
             q == num \div den
             r == num % den
         IN  [kind |-> "finite",
              num |-> IF 2 * r > den \/ (2 * r = den /\ q % 2 = 1) THEN q + 1 ELSE q,
              den |-> 1]

get_donation_nudges(donors_df, num_nudges, ChannelDraws) ==
    LET picks == sample(donors_df, num_nudges)
    IN  IF picks = {}
        THEN {Outcome(Raise("ValueError"), donors_df)}
        ELSE { LET nudge_candidates == take(donors_df, pick)
                   n == Len(nudge_candidates.rows)
                   asked == setitem(nudge_candidates, "suggested_ask",
                                    [i \in 1..n |-> suggested_ask(nudge_candidates.rows[i].avg_donation)])
                   channelled == IF asked.kind = "ok"
                                 THEN setitem(asked.value, "suggested_channel", channel)
                                 ELSE asked
               IN  IF channelled.kind # "ok"
                   THEN Outcome(channelled, donors_df)
                   ELSE Outcome(Ok(project(channelled.value, NudgeColumns)), donors_df)
               : pick \in picks,
                 channel \in random_choice(Range(Channels) \cap ChannelDraws, num_nudges) }

(***************************************************************************)
(* live_donations.groupby('campaign')['amount'].sum(), largest first       *)
(***************************************************************************)
\* groupby lists the campaigns that occur in sorted order; sort_values then
\* orders them by total, equal totals in any order.
donations_by_campaign(live) ==
    LET present == SelectSeq(<<"Emergency Fund", "Holiday Drive", "Summer Appeal">>, LAMBDA c : \E i \in 1..Len(live.rows) : live.rows[i].campaign = c)
        k == Len(present)
        total(c) == SumSeq([i \in 1..Len(live.rows) |->
                              IF live.rows[i].campaign = c THEN live.rows[i].amount ELSE 0])
        orders == {q \in Injections(k, k) :
                     \A i, j \in 1..k : i < j => total(present[q[i]]) >= total(present[q[j]])}
    IN  { [columns |-> <<"campaign", "amount">>,
           index |-> [i \in 1..k |-> q[i] - 1],
           rows |-> [i \in 1..k |-> [campaign |-> present[q[i]], amount |-> total(present[q[i]])]]]
          : q \in orders }

(***************************************************************************)
(* State machine.                                                          *)
(***************************************************************************)
NoCall == [fn |-> "none", arg |-> 0, now |-> 0]

\* The script's steps in the order it takes them (lines 71, 72, 94, 103, 114,
\* 125); pc names the last step taken, "failed" after an uncaught exception.
Steps == <<"generate_synthetic_donors", "get_live_donations_data", "get_donor_segments",
           "get_churn_risk_donors", "get_donation_nudges", "donations_by_campaign">>

StepOf(name) == CHOOSE k \in DOMAIN Steps : Steps[k] = name

\* A step can be taken once the donors exist and no later step has run.
CanRun(step) == pc \in Range(Steps) /\ StepOf(pc) < StepOf(step)

After(step, ret) == IF ret.kind = "ok" THEN step ELSE "failed"

Init ==
    /\ today = 0
    /\ pc = "start"
    /\ donors = NoFrame
    /\ generated = NoFrame
    /\ genDay = 0
    /\ live_donations = NoFrame
    /\ call = NoCall
    /\ result = Ok(NoFrame)

\* datetime.now().date() moves on between two calls.
Tick ==
    /\ today < MaxTicks
    /\ today' = today + 1
    /\ UNCHANGED <<pc, donors, generated, genDay, live_donations, call, result>>

\* donors = generate_synthetic_donors(n), the first step of a render cycle.
Generate(n, DayDraws, CountDraws, AmountDraws) ==
    /\ pc = "start"
    /\ \E out \in generate_synthetic_donors(n, today, DayDraws, CountDraws, AmountDraws) :
          /\ call' = [fn |-> "generate_synthetic_donors", arg |-> n, now |-> today]
          /\ result' = out
          /\ pc' = After("generate_synthetic_donors", out)
          /\ donors' = out.value
          /\ generated' = out.value
          /\ genDay' = today
          /\ live_donations' = NoFrame
          /\ UNCHANGED today

\* The script runs again from the top: everything of the previous render
\* cycle is discarded.
Rerun ==
    /\ pc # "start"
    /\ pc' = "start"
    /\ donors' = NoFrame
    /\ generated' = NoFrame
    /\ genDay' = 0
    /\ live_donations' = NoFrame
    /\ call' = NoCall
    /\ result' = Ok(NoFrame)
    /\ UNCHANGED today

\* live_donations = get_live_donations_data(donors, n)
Live(n, AmountDraws, CampaignDraws) ==
    /\ CanRun("get_live_donations_data")
    /\ \E out \in get_live_donations_data(donors, n, today, AmountDraws, CampaignDraws) :
          /\ call' = [fn |-> "get_live_donations_data", arg |-> n, now |-> today]
          /\ result' = out.ret
          /\ donors' = out.df
          /\ live_donations' = out.ret.value
          /\ pc' = After("get_live_donations_data", out.ret)
          /\ UNCHANGED <<today, generated, genDay>>

\* segments_df = get_donor_segments(donors): writes the segment column into
\* the caller's frame.
Segments ==
    /\ CanRun("get_donor_segments")
    /\ \E out \in get_donor_segments(donors, today) :
          /\ call' = [fn |-> "get_donor_segments", arg |-> 0, now |-> today]
          /\ result' = out.ret
          /\ donors' = out.df
          /\ pc' = After("get_donor_segments", out.ret)
          /\ UNCHANGED <<today, generated, genDay, live_donations>>

\* churn_df = get_churn_risk_donors(donors, n)
Churn(n, ScoreDraws) ==
    /\ CanRun("get_churn_risk_donors")
    /\ \E out \in get_churn_risk_donors(donors, n, today, ScoreDraws) :
          /\ call' = [fn |-> "get_churn_risk_donors", arg |-> n, now |-> today]
          /\ result' = out.ret
          /\ donors' = out.df
          /\ pc' = After("get_churn_risk_donors", out.ret)
          /\ UNCHANGED <<today, generated, genDay, live_donations>>

\* nudge_df = get_donation_nudges(donors, n)
Nudges(n, ChannelDraws) ==
    /\ CanRun("get_donation_nudges")
    /\ \E out \in get_donation_nudges(donors, n, ChannelDraws) :
          /\ call' = [fn |-> "get_donation_nudges", arg |-> n, now |-> today]
          /\ result' = out.ret
          /\ donors' = out.df
          /\ pc' = After("get_donation_nudges", out.ret)
          /\ UNCHANGED <<today, generated, genDay, live_donations>>

\* The campaign totals of the donation stream (line 125).
CampaignTotals ==
    /\ CanRun("donations_by_campaign")
    /\ live_donations # NoFrame
    /\ \E totals \in donations_by_campaign(live_donations) :
          /\ call' = [fn |-> "donations_by_campaign", arg |-> 0, now |-> today]
          /\ result' = Ok(totals)
          /\ pc' = "donations_by_campaign"
          /\ UNCHANGED <<today, donors, generated, genDay, live_donations>>

(***************************************************************************)
(* Specifications: the same operations, each with the draws its claims     *)
(* need.  Draw sets hold values on both sides of the range a draw is       *)
(* confined to and of each threshold the code compares with.               *)
(***************************************************************************)
DayDrawsWide == {29, 89, 90, 730}
CountDrawsWide == {0, 1, 10, 11, 50}
AmountDrawsWide == {505, 519, 1509, 1510}

GenerateWide == \E n \in -1..MaxDonors : Generate(n, DayDrawsWide, CountDrawsWide, AmountDrawsWide)

NextSegments == GenerateWide \/ Segments \/ Tick \/ Rerun

SpecSegments == Init /\ [][NextSegments]_vars

DayDrawsChurn == {29, 180, 181, 730}
CountDrawsChurn == {0, 1, 2, 50}
ScoreDraws == {699, 700, 949, 950}

GenerateChurn == \E n \in 1..MaxDonors : Generate(n, DayDrawsChurn, CountDrawsChurn, {1510})

ChurnAny == \E n \in -1..MaxTopN : Churn(n, ScoreDraws)

NextChurn == GenerateChurn \/ ChurnAny \/ Tick \/ Rerun

SpecChurn == Init /\ [][NextChurn]_vars

EventAmountDraws == {9, 205}

GenerateLive == \E n \in 0..MaxDonors : Generate(n, {89}, {11}, {1510})

LiveAny == \E n \in -1..MaxEvents : Live(n, EventAmountDraws, Range(Campaigns))

NextLive == GenerateLive \/ LiveAny \/ Tick \/ Rerun

SpecLive == Init /\ [][NextLive]_vars

GenerateNudges == \E n \in 0..MaxDonors : Generate(n, {89}, {1, 11}, {505, 1510})

NudgesAny == \E n \in -1..(MaxNudges + 1) : Nudges(n, Range(Channels))

NextNudges == GenerateNudges \/ NudgesAny \/ Rerun

SpecNudges == Init /\ [][NextNudges]_vars

\* The render cycle: the generator, then the derivations in any order.
GenerateCycle == \E n \in 0..MaxDonors : Generate(n, {181}, {11}, {1510})

LiveCycle == \E n \in 0..MaxEvents : Live(n, {205}, {"Summer Appeal", "Holiday Drive"})

ChurnCycle == \E n \in 0..MaxTopN : Churn(n, {700})

NudgesCycle == \E n \in 0..MaxNudges : Nudges(n, {"Email"})

Next ==
    \/ GenerateCycle
    \/ LiveCycle
    \/ Segments
    \/ ChurnCycle
    \/ NudgesCycle
    \/ CampaignTotals
    \/ Tick
    \/ Rerun

Spec == Init /\ [][Next]_vars

(***************************************************************************)
(* Claims about generate_synthetic_donors.                                 *)
(***************************************************************************)
GenerateReturned == call.fn = "generate_synthetic_donors"

\* C6: for every positive N the generator returns exactly N donors whose
\* donor_id values are pairwise distinct and are exactly {1001..1000+N};
\* every donor has total_donations in [1, 50), so avg_donation is
\* total_amount / total_donations, defined and non-negative.
C6_GeneratorShape ==
    (GenerateReturned /\ call.arg > 0) =>
        /\ result.kind = "ok"
        /\ Len(result.value.rows) = call.arg
        /\ {result.value.rows[i].donor_id : i \in 1..Len(result.value.rows)}
             = 1001..(1000 + call.arg)
        /\ \A i, j \in 1..Len(result.value.rows) :
             i # j => result.value.rows[i].donor_id # result.value.rows[j].donor_id
        /\ \A i \in 1..Len(result.value.rows) :
             LET r == result.value.rows[i]
             IN  /\ r.total_donations >= 1 /\ r.total_donations < 50
                 /\ r.avg_donation.kind = "finite"
                 /\ r.avg_donation.num = r.total_amount
                 /\ r.avg_donation.den = r.total_donations
                 /\ r.avg_donation.num >= 0 /\ r.avg_donation.den > 0

C6_Witness ==
    /\ GenerateReturned /\ call.arg >= 2 /\ result.kind = "ok"
    /\ \E i, j \in 1..Len(donors.rows) :
         donors.rows[i].total_donations # donors.rows[j].total_donations

\* C7: the generator called with count <= 0 (zero or negative) fails with an
\* error and returns no donor set; it never returns an empty donor set.
C7_NonPositiveCountFails ==
    (GenerateReturned /\ call.arg <= 0) => result.kind = "raise"

(***************************************************************************)
(* Claims about get_donor_segments.                                        *)
(***************************************************************************)
SegmentsReturned == call.fn = "get_donor_segments"

\* C2: segmentation assigns every donor exactly one of the four labels, and
\* the returned segment counts partition the donor set: the labels listed
\* are distinct, each count is the number of donors with that label, and the
\* counts add up to the number of donors.
C2_SegmentsPartition ==
    SegmentsReturned =>
        /\ result.kind = "ok"
        /\ Len(donors.rows) = Len(generated.rows)
        /\ \A i \in 1..Len(donors.rows) : donors.rows[i].segment \in Labels
        /\ LET counts == result.value.rows
           IN  /\ \A i \in 1..Len(counts) : counts[i].segment \in Labels
               /\ \A i, j \in 1..Len(counts) : i # j => counts[i].segment # counts[j].segment
               /\ \A i \in 1..Len(counts) :
                    counts[i].count = Cardinality({d \in 1..Len(donors.rows) :
                                                     donors.rows[d].segment = counts[i].segment})
               /\ SumSeq([i \in 1..Len(counts) |-> counts[i].count]) = Len(donors.rows)

C2_Witness ==
    /\ SegmentsReturned /\ result.kind = "ok"
    /\ Len(donors.rows) = 2
    /\ Len(result.value.rows) = 2

\* The label the rules give a donor, as the specification states them.
RuleLabel(row, now) ==
    IF row.total_amount > 150 /\ row.total_donations > 10 THEN "Champions"
    ELSE IF row.total_amount > 50 /\ now - row.join_date < 90 THEN "Emerging Supporters"
    ELSE IF row.total_donations = 1 THEN "One-Time Givers"
    ELSE "At-Risk Donors"

\* C3: the rules are evaluated in order and the first match wins: Champions
\* iff total_amount > 150 and total_donations > 10; otherwise Emerging
\* Supporters iff total_amount > 50 and join_date within the last 90 days;
\* otherwise One-Time Givers iff total_donations = 1; otherwise At-Risk
\* Donors. A donor meeting rules 1 and 2 is a Champion; a donor with one
\* donation meeting rule 2 is an Emerging Supporter.
C3_FirstMatchWins ==
    (SegmentsReturned /\ result.kind = "ok") =>
        \A i \in 1..Len(donors.rows) :
            LET r == donors.rows[i]
                recent == call.now - r.join_date < 90
            IN  /\ r.segment = RuleLabel(r, call.now)
                /\ (r.total_amount > 150 /\ r.total_donations > 10 /\ recent)
                     => r.segment = "Champions"
                /\ (r.total_donations = 1 /\ r.total_amount > 50 /\ recent)
                     => r.segment = "Emerging Supporters"

C3_Witness ==
    /\ SegmentsReturned /\ result.kind = "ok"
    /\ \E i, j \in 1..Len(donors.rows) :
         LET a == donors.rows[i]
             b == donors.rows[j]
         IN  /\ a.total_amount > 150 /\ a.total_donations > 10
             /\ call.now - a.join_date < 90 /\ a.segment = "Champions"
             /\ b.total_donations = 1 /\ b.total_amount > 50
             /\ call.now - b.join_date < 90 /\ b.segment = "Emerging Supporters"

(***************************************************************************)
(* Claims about get_live_donations_data.                                   *)
(***************************************************************************)
LiveReturned == call.fn = "get_live_donations_data"

\* C4: for a non-empty donor set and a positive count, every event has a
\* donor_id that is the id of a donor of the donor set, and the name joined
\* onto the event is that donor's name.
C4_ReferentialIntegrity ==
    (LiveReturned /\ Len(donors.rows) > 0 /\ call.arg > 0) =>
        /\ result.kind = "ok"
        /\ \A e \in 1..Len(result.value.rows) :
             \E d \in 1..Len(donors.rows) :
                 /\ donors.rows[d].donor_id = result.value.rows[e].donor_id
                 /\ donors.rows[d].name = result.value.rows[e].name

C4_Witness ==
    /\ LiveReturned /\ result.kind = "ok" /\ call.arg >= 2 /\ Len(donors.rows) >= 2
    /\ result.value.rows[1].donor_id # result.value.rows[2].donor_id

\* C5: for a non-empty donor set and a positive count M, exactly M events
\* are returned; the first timestamp is the start of the current date and
\* each later one is exactly one hour after the one before it, so the
\* timestamps increase strictly in output order.
C5_CountAndTimestamps ==
    (LiveReturned /\ Len(donors.rows) > 0 /\ call.arg > 0) =>
        /\ result.kind = "ok"
        /\ Len(result.value.rows) = call.arg
        /\ result.value.rows[1].timestamp = 24 * call.now
        /\ \A e \in 2..Len(result.value.rows) :
             /\ result.value.rows[e].timestamp = result.value.rows[e - 1].timestamp + 1
             /\ result.value.rows[e].timestamp > result.value.rows[e - 1].timestamp

C5_Witness ==
    /\ LiveReturned /\ result.kind = "ok" /\ call.arg >= 2 /\ Len(donors.rows) >= 2
    /\ call.now > 0
    /\ result.value.rows[1].donor_id = result.value.rows[2].donor_id

(***************************************************************************)
(* Claims about get_churn_risk_donors.                                     *)
(***************************************************************************)
ChurnReturned == call.fn = "get_churn_risk_donors"

\* The donors whose join_date is more than 180 days before the given day.
OlderThan180(day) ==
    {d \in 1..Len(donors.rows) : donors.rows[d].join_date < day - 180}

\* C1: called with top_n on a donor set in which fewer than top_n donors
\* have a join_date older than 180 days, the selector raises no error and
\* returns all of the qualifying donors, each with a score and an action.
C1_PartialResult ==
    (ChurnReturned /\ Cardinality(OlderThan180(call.now)) < call.arg) =>
        /\ result.kind = "ok"
        /\ Len(result.value.rows) = Cardinality(OlderThan180(call.now))
        /\ {result.value.rows[i].name : i \in 1..Len(result.value.rows)}
             = {donors.rows[d].name : d \in OlderThan180(call.now)}
        /\ \A i \in 1..Len(result.value.rows) :
             /\ result.value.rows[i].churn_risk_score \in 70..95
             /\ result.value.rows[i].suggested_action = "Personal Call"

\* C9: a result for top_n has at most top_n rows; every returned donor has
\* a join_date more than 180 days before generation time; the rows are in
\* non-decreasing order of total_donations; no qualifying donor left out has
\* fewer total_donations than a returned one; every row carries a
\* churn_risk_score in [0.70, 0.95] and the action 'Personal Call'.
C9_ChurnResult ==
    (ChurnReturned /\ result.kind = "ok") =>
        LET rows == result.value.rows
            returned == {d \in 1..Len(donors.rows) :
                           \E i \in 1..Len(rows) : rows[i].name = donors.rows[d].name}
        IN  /\ Len(rows) <= call.arg
            /\ \A i \in 1..Len(rows) :
                 \E d \in OlderThan180(genDay) :
                     /\ donors.rows[d].name = rows[i].name
                     /\ donors.rows[d].join_date = rows[i].join_date
                     /\ donors.rows[d].total_donations = rows[i].total_donations
            /\ \A i, j \in 1..Len(rows) :
                 i < j => rows[i].total_donations <= rows[j].total_donations
            /\ \A d \in OlderThan180(call.now) \ returned :
                 \A i \in 1..Len(rows) :
                     donors.rows[d].total_donations >= rows[i].total_donations
            /\ \A i \in 1..Len(rows) :
                 /\ rows[i].churn_risk_score \in 70..95
                 /\ rows[i].suggested_action = "Personal Call"

(***************************************************************************)
(* Claims about get_donation_nudges.                                       *)
(***************************************************************************)
NudgesReturned == call.fn = "get_donation_nudges"

\* C8: called with count greater than the number of donors the recommender
\* fails with an error; called with a count (of zero or more) up to the
\* number of donors it returns exactly count rows that refer to count
\* pairwise distinct donors of the donor set.
C8_SampleWithoutReplacement ==
    NudgesReturned =>
        /\ call.arg > Len(donors.rows) => result.kind = "raise"
        /\ (0 <= call.arg /\ call.arg <= Len(donors.rows)) =>
             /\ result.kind = "ok"
             /\ Len(result.value.rows) = call.arg
             /\ \A i, j \in 1..Len(result.value.rows) :
                  i # j => /\ result.value.rows[i].name # result.value.rows[j].name
                           /\ result.value.index[i] # result.value.index[j]
             /\ \A i \in 1..Len(result.value.rows) :
                  \E d \in 1..Len(donors.rows) :
                      /\ donors.index[d] = result.value.index[i]
                      /\ donors.rows[d].name = result.value.rows[i].name
                      /\ donors.rows[d].avg_donation = result.value.rows[i].avg_donation

C8_Witness ==
    /\ NudgesReturned /\ result.kind = "ok"
    /\ call.arg = 2 /\ Len(donors.rows) = 2
    /\ result.value.rows[1].name = "Donor_1"

(***************************************************************************)
(* Claims about the render cycle.                                          *)
(***************************************************************************)
\* C10 as stated: after any sequence of derivations the donor set, every
\* record and its shape, equals the one the generator returned.
C10_DonorsUntouched ==
    pc # "start" => donors = generated

\* C10 as amended: after any sequence of derivations the donor set has the
\* rows the generator returned, in the same order and under the same labels,
\* with every generated field unchanged; the only change a derivation makes
\* is the segment column that segmentation appends to the donor set.
C10_GeneratedFieldsUntouched ==
    pc # "start" =>
        /\ project(donors, generated.columns) = generated
        /\ \/ donors.columns = generated.columns
           \/ /\ donors.columns = Append(generated.columns, "segment")
              /\ pc \in {"get_donor_segments", "get_churn_risk_donors",
                         "get_donation_nudges", "donations_by_campaign", "failed"}

C10_Witness ==
    /\ pc = "get_donation_nudges"
    /\ Len(donors.rows) >= 2
    /\ "segment" \in Range(donors.columns)
    /\ live_donations # NoFrame
    /\ result.kind = "ok" /\ Len(result.value.rows) >= 1
=============================================================================
